---- MODULE Spec2Model ----
(***************************************************************************)
(* shared-files: one writer and several readers of one backing file,       *)
(* coordinated through the Sentinel (the WriteState cell and the table of  *)
(* reader wakers).                                                         *)
(*                                                                         *)
(* The writer and every reader run as tasks of a multi-threaded runtime,   *)
(* so every access to the Sentinel is a step of its own: a reader's        *)
(* poll_read is the steps PollRead (load the state), RegisterAtFrontier,   *)
(* BackingRead, ReloadState and RegisterRetry; a writer operation is the   *)
(* step that performs the backing I/O and stores the state, followed by    *)
(* the step WakeReaders wherever the code calls wake_readers.              *)
(*                                                                         *)
(* A byte written by the writer at file offset i has the value Data(i);    *)
(* a byte the backing file held before the SharedFile was created has the  *)
(* value Stale; a byte that a later writer view (SharedFile::writer called  *)
(* again, its view at offset 0) writes over a written byte has the value   *)
(* Over.  The backing file starts longer than anything the writer writes   *)
(* (tests/read_exact.rs), and a byte the backing write accepts is in the   *)
(* file at once.                                                           *)
(***************************************************************************)
EXTENDS Integers, Sequences, FiniteSets, TLC

\* Bytes the backing file accepts from the writer, all writes together.
MaxWritten == 2
\* Largest remaining capacity of a caller's read buffer.
MaxBuf == MaxWritten
\* The filled cursors of the buffers callers poll with: a fresh buffer's
\* (AsyncReadExt::read) and a partly filled one's (AsyncReadExt::read_exact).
Cursors == {0, 1}
\* Longest request of one write.
MaxLen == MaxWritten
\* Length of a pre-existing backing file (tests/read_exact.rs prefill_file).
MaxPrefill == MaxWritten + 1
\* The reader identities (Uuid::now_v1 gives every reader its own).
Readers == {1, 2}
\* The readers whose callers seek; the others read sequentially.
Seekers == {1}

Stale == 0
Data(off) == off + 1
Over == -1

Min(a, b) == IF a < b THEN a ELSE b
Max(a, b) == IF a > b THEN a ELSE b

VARIABLES
    state,       \* Sentinel.state: the WriteState
    wakers,      \* Sentinel.wakers: the ids that have a waker in the table
    woken,       \* the readers inside a poll or parked whose task has been woken
    disk,        \* the bytes of the backing file
    wpos,        \* the offset of the writer's view of the backing file
    wpc,         \* the writer's position
    rpc,         \* each reader's position
    read,        \* SharedFileReader.read: bytes_read of each reader
    pos,         \* the offset of each reader's view of the backing file
    total,       \* current_total of the poll a reader is in (0 outside one)
    seeked,      \* whether the reader has ever seeked
    delivered    \* the bytes each reader's caller has been handed, in order

vars == <<state, wakers, woken, disk, wpos, wpc,
          rpc, read, pos, total, seeked, delivered>>
wvars == <<wpos, wpc>>
rvars == <<rpc, read, pos, total, seeked, delivered>>

\* Sets of reader positions (the positions are described with the reader).
Returned == {"ready", "eof", "zero", "closed", "ioerr"}
Parked == {"parked", "parked_io"}
BetweenPolls == Returned \cup Parked
IoStates == {"io", "io_rel"}

(***************************************************************************)
(* WriteState                                                              *)
(***************************************************************************)
Pending(c, w) == [tag |-> "Pending", committed |-> c, written |-> w]
\* Completed(size): both fields hold the size.
Completed(n) == [tag |-> "Completed", committed |-> n, written |-> n]
Failed == [tag |-> "Failed", committed |-> 0, written |-> 0]

(***************************************************************************)
(* The backing file.  A write of k bytes at offset at; a read of k bytes   *)
(* at offset p.                                                            *)
(***************************************************************************)
DiskWrite(d, at, k) ==
    [i \in 1..Max(Len(d), at + k) |->
        IF at < i /\ i <= at + k
        THEN IF i <= Len(d) /\ d[i] # Stale THEN Over ELSE Data(i - 1)
        ELSE d[i]]

DiskRead(d, p, k) == [i \in 1..k |-> d[p + i]]

\* The byte counts a backing read may report for a buffer of `most` bytes at
\* offset p: none at the end of the file or for an empty buffer, else 1..avail.
BackingCounts(d, p, most) ==
    IF most <= 0 \/ p >= Len(d) THEN {0} ELSE 1..Min(most, Len(d) - p)

(***************************************************************************)
(* Writer: the pure parts                                                  *)
(***************************************************************************)
\* sync_committed_and_written that stores nothing.
SyncCommittedAndWritten_NoPromote(st) == st

\* sync_committed_and_written that stores Pending whatever the state is.
SyncCommittedAndWritten_NoMatch(st) == Pending(st.written, st.written)

SyncCommittedAndWritten(st) ==
    IF st.tag = "Pending" THEN Pending(st.written, st.written) ELSE st

\* update_state that accepts every write after completion.
UpdateState_Lenient(st, k) ==
    CASE st.tag = "Pending" ->
            [st |-> Pending(st.committed, st.written + k), res |-> "ok"]
      [] st.tag = "Completed" -> [st |-> st, res |-> "ok"]
      [] OTHER -> [st |-> st, res |-> "Other"]

\* update_state that stores the count of this write instead of the sum.
UpdateState_NoSum(st, k) ==
    IF st.tag = "Pending"
    THEN [st |-> Pending(st.committed, k), res |-> "ok"]
    ELSE [st |-> st, res |-> "Other"]

\* [st: the state stored, res: the result]
UpdateState(st, k) ==
    CASE st.tag = "Pending" ->
            [st |-> Pending(st.committed, st.written + k), res |-> "ok"]
      [] st.tag = "Completed" ->
            [st |-> st, res |-> IF k # 0 THEN "FileClosed" ELSE "ok"]
      [] OTHER -> [st |-> st, res |-> "Other"]

\* finalize_state that completes a failed file.
FinalizeState_Revive(st) ==
    IF st.tag = "Pending" /\ st.committed # st.written
    THEN [st |-> st, res |-> "panic"]
    ELSE [st |-> Completed(st.written), res |-> "ok"]

\* finalize_state that stores nothing and returns Ok.
FinalizeState_NoStore(st) == [st |-> st, res |-> "ok"]

\* [st, res]; res = "panic" when assert_eq!(committed, written) fails.
FinalizeState(st) ==
    CASE st.tag = "Pending" ->
            IF st.committed = st.written
            THEN [st |-> Completed(st.written), res |-> "ok"]
            ELSE [st |-> st, res |-> "panic"]
      [] st.tag = "Completed" -> [st |-> st, res |-> "ok"]
      [] OTHER -> [st |-> st, res |-> "FileWritingFailed"]

\* handle_poll_write_result for Ready(Err(e)) that stores nothing.
HandlePollWriteErr_NoStore(st) == [st |-> st, res |-> "BackingError", wake |-> TRUE]

\* handle_poll_write_result for Ready(Err(e)): Failed is stored, the readers
\* are woken, the backing error is returned.
HandlePollWriteErr(st) == [st |-> Failed, res |-> "BackingError", wake |-> TRUE]

\* poll_flush, the backing flush being Ready(Ok) or Ready(Err).
PollFlushReady(st, ok) ==
    IF ok
    THEN [st |-> SyncCommittedAndWritten(st), res |-> "ok", wake |-> TRUE]
    ELSE [st |-> Failed, res |-> "BackingError", wake |-> TRUE]

\* sync_all / sync_data: `?` returns the backing error before anything else
\* is done.
SyncReturn(st, ok) ==
    IF ok
    THEN [st |-> SyncCommittedAndWritten(st), res |-> "ok", wake |-> TRUE]
    ELSE [st |-> st, res |-> "BackingError", wake |-> FALSE]

\* poll_shutdown in a release build, the backing shutdown being Ready(Ok) or
\* Ready(Err): no wake_readers on either branch.
PollShutdownReady(st, ok) ==
    IF ok
    THEN [st |-> IF st.tag = "Pending" THEN Completed(st.written) ELSE st,
          res |-> "ok", wake |-> FALSE]
    ELSE [st |-> Failed, res |-> "BackingError", wake |-> FALSE]

\* What complete() returns: SyncError when its sync_all fails, else what the
\* finalize_state of complete_no_sync returns after the promotion.
CompleteReturn(st, syncOk) ==
    IF syncOk THEN FinalizeState(SyncCommittedAndWritten(st)).res ELSE "SyncError"

\* file_size reporting the written count of Pending.
FileSize_Written(st) ==
    CASE st.tag = "Pending" -> [kind |-> "AtLeast", n |-> st.written]
      [] st.tag = "Completed" -> [kind |-> "Exactly", n |-> st.committed]
      [] OTHER -> [kind |-> "Error", n |-> 0]

\* SharedFileReader::file_size.
FileSize(st) ==
    CASE st.tag = "Pending" -> [kind |-> "AtLeast", n |-> st.committed]
      [] st.tag = "Completed" -> [kind |-> "Exactly", n |-> st.committed]
      [] OTHER -> [kind |-> "Error", n |-> 0]

Init ==
    /\ state = Pending(0, 0)
    /\ wakers = {}
    /\ woken = {}
    /\ disk = [i \in 1..MaxPrefill |-> Stale]
    /\ wpos = 0
    /\ wpc = "idle"
    /\ rpc = [r \in Readers |-> "none"]
    /\ read = [r \in Readers |-> 0]
    /\ pos = [r \in Readers |-> 0]
    /\ total = [r \in Readers |-> 0]
    /\ seeked = [r \in Readers |-> FALSE]
    /\ delivered = [r \in Readers |-> <<>>]

(***************************************************************************)
(* Writer.  Its positions: "idle" (between operations), "wake" (before the *)
(* wake_readers of flush, sync_all, sync_data or a failed write),          *)
(* "c_wake1", "c_fin", "c_wake2" (inside complete / complete_no_sync),     *)
(* "drop_wake" (inside its drop), "done" (dropped),                        *)
(* "err_wake", "done_err" (the drop after complete()'s sync_all failed),  *)
(* "panicked" (its drop panicked), "aborted" (a panic while unwinding:     *)
(* the process is gone and nothing runs after that).                       *)
(***************************************************************************)
Alive == wpc # "aborted"

WriterIdle == wpc = "idle"

\* handle_poll_write_result that counts the bytes asked for.
HandlePollWriteOk_Requested(st, len, k) == UpdateState(st, len)

\* handle_poll_write_result for Ready(Ok(k)), the caller having asked for
\* len bytes: [st: the state stored, res: the result].
HandlePollWriteOk(st, len, k) == UpdateState(st, k)

\* poll_write / poll_write_vectored, the backing file accepting k of len
\* bytes.  The backing write has taken place before update_state looks at
\* the state.
PollWrite(len, k) ==
    /\ WriterIdle
    /\ k <= len
    /\ wpos + k <= MaxWritten
    /\ disk' = DiskWrite(disk, wpos, k)
    /\ wpos' = wpos + k
    /\ state' = HandlePollWriteOk(state, len, k).st
    /\ UNCHANGED <<wakers, woken, wpc, rvars>>

\* poll_write / poll_write_vectored, the backing write failing.
PollWriteErr ==
    /\ WriterIdle
    /\ state' = HandlePollWriteErr(state).st
    /\ wpc' = IF HandlePollWriteErr(state).wake THEN "wake" ELSE wpc
    /\ UNCHANGED <<wakers, woken, disk, wpos, rvars>>

\* poll_flush, the backing flush succeeding.
PollFlushOk ==
    /\ WriterIdle
    /\ state' = PollFlushReady(state, TRUE).st
    /\ wpc' = IF PollFlushReady(state, TRUE).wake THEN "wake" ELSE wpc
    /\ UNCHANGED <<wakers, woken, disk, wpos, rvars>>

\* poll_flush, the backing flush failing.
PollFlushErr ==
    /\ WriterIdle
    /\ state' = PollFlushReady(state, FALSE).st
    /\ wpc' = IF PollFlushReady(state, FALSE).wake THEN "wake" ELSE wpc
    /\ UNCHANGED <<wakers, woken, disk, wpos, rvars>>

\* sync_all / sync_data, the backing sync succeeding.
SyncOk ==
    /\ WriterIdle
    /\ state' = SyncReturn(state, TRUE).st
    /\ wpc' = IF SyncReturn(state, TRUE).wake THEN "wake" ELSE wpc
    /\ UNCHANGED <<wakers, woken, disk, wpos, rvars>>

\* sync_all / sync_data, the backing sync failing: `?` returns the error
\* before anything else is done.
SyncErr ==
    /\ WriterIdle
    /\ state' = SyncReturn(state, FALSE).st
    /\ wpc' = IF SyncReturn(state, FALSE).wake THEN "wake" ELSE wpc
    /\ UNCHANGED <<wakers, woken, disk, wpos, rvars>>

\* What poll_shutdown stores after a successful backing shutdown.
ShutdownState(st) == PollShutdownReady(st, TRUE).st

\* poll_shutdown, the backing shutdown succeeding.  debug_assert_eq! is
\* compiled in debug builds only: with committed # written a debug build
\* panics, and the writer dropped by the unwinding panics again in
\* finalize_state, which aborts the process; a release build stores
\* Completed(written).
PollShutdownOk ==
    /\ WriterIdle
    /\ \/ /\ state' = ShutdownState(state)
          /\ wpc' = wpc
       \/ /\ state.tag = "Pending"
          /\ state.committed # state.written
          /\ state' = state
          /\ wpc' = "aborted"
    /\ UNCHANGED <<wakers, woken, disk, wpos, rvars>>

\* poll_shutdown, the backing shutdown failing.
PollShutdownErr ==
    /\ WriterIdle
    /\ state' = PollShutdownReady(state, FALSE).st
    /\ UNCHANGED <<wakers, woken, disk, wpos, wpc, rvars>>

\* complete(): the sync_all of its first line succeeds.
CompleteSyncOk ==
    /\ WriterIdle
    /\ state' = SyncCommittedAndWritten(state)
    /\ wpc' = "c_wake1"
    /\ UNCHANGED <<wakers, woken, disk, wpos, rvars>>

\* complete(): the sync_all fails; SyncError is returned and the writer is
\* dropped, which runs finalize_state.  A failed assert_eq! there panics
\* before wake_readers.
CompleteSyncErr ==
    /\ WriterIdle
    /\ state' = FinalizeState(state).st
    /\ wpc' = IF FinalizeState(state).res = "panic" THEN "panicked" ELSE "err_wake"
    /\ UNCHANGED <<wakers, woken, disk, wpos, rvars>>

\* complete(), after the wake_readers of sync_all: complete_no_sync's
\* finalize_state up to its wake_readers.
CompleteFinalize ==
    /\ wpc = "c_fin"
    /\ state' = FinalizeState(state).st
    /\ wpc' = IF FinalizeState(state).res = "panic" THEN "aborted" ELSE "c_wake2"
    /\ UNCHANGED <<wakers, woken, disk, wpos, rvars>>

\* complete_no_sync(): finalize_state up to its wake_readers.  A failed
\* assert_eq! unwinds through the owned writer, whose drop fails the same
\* assertion: the process aborts.
CompleteNoSync ==
    /\ WriterIdle
    /\ state' = FinalizeState(state).st
    /\ wpc' = IF FinalizeState(state).res = "panic" THEN "aborted" ELSE "c_wake2"
    /\ UNCHANGED <<wakers, woken, disk, wpos, rvars>>

\* Dropping the writer: finalize_state up to its wake_readers; a failed
\* assert_eq! panics and leaves the state as it is.
DropWriter ==
    /\ WriterIdle
    /\ state' = FinalizeState(state).st
    /\ wpc' = IF FinalizeState(state).res = "panic" THEN "panicked" ELSE "drop_wake"
    /\ UNCHANGED <<wakers, woken, disk, wpos, rvars>>

\* Where the writer goes on after a wake_readers.  After the one of
\* complete / complete_no_sync the consumed writer is dropped: the
\* finalize_state of its drop finds the Completed or Failed that this writer
\* has just left there, stores nothing and goes to its wake_readers.
AfterWake(pc) ==
    CASE pc = "wake" -> "idle"
      [] pc = "c_wake1" -> "c_fin"
      [] pc = "c_wake2" -> "drop_wake"
      [] pc = "err_wake" -> "done_err"
      [] OTHER -> "done"

\* Sentinel::wake_readers: the table is drained and every waker in it woken.
\* The wake of a reader that is between two polls after a Ready finds its
\* task not waiting for this reader: that reader is polled whenever its
\* caller reads again.
WakeReaders ==
    /\ wpc \in {"wake", "c_wake1", "c_wake2", "drop_wake", "err_wake"}
    /\ woken' = woken \cup {r \in wakers : rpc[r] \notin Returned}
    /\ wakers' = {}
    /\ wpc' = AfterWake(wpc)
    /\ UNCHANGED <<state, disk, wpos, rvars>>

(***************************************************************************)
(* Reader.  Positions: "none" (not created) and "dropped"; between polls,  *)
(* by what the last poll returned: "ready" (bytes handed to the caller),   *)
(* "parked" (Pending, at the frontier), "parked_io" (Pending, after the    *)
(* backing read), "eof" (Ready(Ok) with the filled cursor where it was,    *)
(* the buffer having room: the end of the stream to the caller), "zero"    *)
(* (Ready(Ok), nothing read into a buffer without room), "closed"          *)
(* (FileClosed), "ioerr" (the backing read's error); inside a poll:        *)
(* "reg1" (before the register at the frontier), "io" (before the backing  *)
(* read), "io_rel" (the same, in the first poll after a wake released the  *)
(* reader from the frontier), "reload" (before the second load of the      *)
(* state), "reload0" (the same, the caller's buffer having no room),       *)
(* "reg2" (before the re-register).                                        *)
(***************************************************************************)

\* SharedFile::reader: a new reader, its view at offset 0.  Readers are
\* created in the order of their ids.
NewReader(r) ==
    /\ Alive
    /\ rpc[r] = "none"
    /\ \A q \in Readers : q < r => rpc[q] # "none"
    /\ rpc' = [rpc EXCEPT ![r] = "ready"]
    /\ read' = [read EXCEPT ![r] = 0]
    /\ pos' = [pos EXCEPT ![r] = 0]
    /\ UNCHANGED <<state, wakers, woken, disk, wvars, total, seeked, delivered>>

\* SharedFileReader::fork of reader src.
Fork(src, r) ==
    /\ Alive
    /\ rpc[src] \in BetweenPolls
    /\ rpc[r] = "none"
    /\ \A q \in Readers : q < r => rpc[q] # "none"
    /\ rpc' = [rpc EXCEPT ![r] = "ready"]
    /\ read' = [read EXCEPT ![r] = 0]
    /\ pos' = [pos EXCEPT ![r] = 0]
    /\ UNCHANGED <<state, wakers, woken, disk, wvars, total, seeked, delivered>>

\* A drop of the reader that leaves its waker in the table.
DropReader_KeepsWaker(r) ==
    /\ Alive
    /\ rpc[r] \in BetweenPolls
    /\ rpc' = [rpc EXCEPT ![r] = "dropped"]
    /\ woken' = woken \ {r}
    /\ read' = [read EXCEPT ![r] = 0]
    /\ pos' = [pos EXCEPT ![r] = 0]
    /\ seeked' = [seeked EXCEPT ![r] = FALSE]
    /\ delivered' = [delivered EXCEPT ![r] = <<>>]
    /\ UNCHANGED <<state, wakers, disk, wvars, total>>

\* PinnedDrop for SharedFileReader: the waker is removed; the reader's
\* counter, view and history go with the object.
DropReader(r) ==
    /\ Alive
    /\ rpc[r] \in BetweenPolls
    /\ rpc' = [rpc EXCEPT ![r] = "dropped"]
    /\ wakers' = wakers \ {r}
    /\ woken' = woken \ {r}
    /\ read' = [read EXCEPT ![r] = 0]
    /\ pos' = [pos EXCEPT ![r] = 0]
    /\ seeked' = [seeked EXCEPT ![r] = FALSE]
    /\ delivered' = [delivered EXCEPT ![r] = <<>>]
    /\ UNCHANGED <<state, disk, wvars, total>>

\* AsyncSeek: start_seek and poll_complete go to the reader's view and to
\* nothing else.
Seek(r, p) ==
    /\ Alive
    /\ rpc[r] \in Returned
    /\ pos' = [pos EXCEPT ![r] = p]
    /\ seeked' = [seeked EXCEPT ![r] = TRUE]
    /\ delivered' = [delivered EXCEPT ![r] = <<>>]
    /\ UNCHANGED <<state, wakers, woken, disk, wvars, rpc, read, total>>

\* The first match of poll_read taking Failed for a finished file.
Dispatch_FailedAsEof(st, readSoFar) ==
    CASE st.tag = "Pending" ->
            IF readSoFar = st.committed THEN "reg1" ELSE "io"
      [] st.tag = "Completed" ->
            IF readSoFar = st.committed THEN "eof" ELSE "io"
      [] OTHER -> "eof"

\* The first match of poll_read parking at the end of a completed file.
Dispatch_ParkOnCompleted(st, readSoFar) ==
    CASE st.tag = "Pending" ->
            IF readSoFar = st.committed THEN "reg1" ELSE "io"
      [] st.tag = "Completed" ->
            IF readSoFar = st.committed THEN "reg1" ELSE "io"
      [] OTHER -> "closed"

\* Where poll_read goes after its first load of the state.
Dispatch(st, readSoFar) ==
    CASE st.tag = "Pending" ->
            IF readSoFar = st.committed THEN "reg1" ELSE "io"
      [] st.tag = "Completed" ->
            IF readSoFar = st.committed THEN "eof" ELSE "io"
      [] OTHER -> "closed"

\* current_total of a poll that goes on to the backing read.
CurrentTotal(st, readSoFar) ==
    IF Dispatch(st, readSoFar) = "io" THEN st.committed ELSE 0

\* poll_read up to the match on the loaded state.  The caller polls again
\* after a result, and a parked task is polled when it has been woken.
PollRead(r) ==
    /\ Alive
    /\ \/ rpc[r] \in Returned
       \/ rpc[r] \in Parked /\ r \in woken
    /\ woken' = woken \ {r}
    /\ total' = [total EXCEPT ![r] = CurrentTotal(state, read[r])]
    /\ rpc' = [rpc EXCEPT ![r] =
                  IF rpc[r] = "parked" /\ Dispatch(state, read[r]) = "io"
                  THEN "io_rel" ELSE Dispatch(state, read[r])]
    /\ UNCHANGED <<state, wakers, disk, wvars, read, pos, seeked, delivered>>

\* poll_read at the frontier: register the waker, return Pending.
RegisterAtFrontier(r) ==
    /\ Alive
    /\ rpc[r] = "reg1"
    /\ wakers' = wakers \cup {r}
    /\ rpc' = [rpc EXCEPT ![r] = "parked"]
    /\ UNCHANGED <<state, woken, disk, wvars, read, pos, total, seeked, delivered>>

\* poll_read without the clamp: the caller's whole buffer.
ReadAtMost_Unclamped(currentTotal, readSoFar, remaining) == remaining

\* The clamp: (current_total - read_so_far).min(buf.remaining()).
ReadAtMost(currentTotal, readSoFar, remaining) ==
    Min(currentTotal - readSoFar, remaining)

\* The caller's filled cursor after a read of k > 0 bytes into a buffer
\* whose cursor was f: buf.take() starts a buffer of its own, so read_now
\* is k, and buf.set_filled(read_now) sets the cursor to it.
SetFilled(f, k) == k

\* The bytes of a read the caller finds between its old cursor f and the
\* new one: the backing read wrote them from position f on.
Handed(bytes, f, cursor) ==
    IF cursor > f THEN SubSeq(bytes, 1, Min(cursor - f, Len(bytes))) ELSE <<>>

\* The backing read returns k bytes into a buffer with cursor f and `rem`
\* bytes of room: remove_reader_waker, then the accounting of a read that
\* advanced the buffer, or on to the second load of the state.
BackingReadOk(r, f, rem, k) ==
    /\ Alive
    /\ rpc[r] \in IoStates
    /\ k \in BackingCounts(disk, pos[r], ReadAtMost(total[r], read[r], rem))
    /\ wakers' = wakers \ {r}
    /\ pos' = [pos EXCEPT ![r] = @ + k]
    /\ woken' = IF k # 0 THEN woken \ {r} ELSE woken
    /\ IF k # 0
       THEN /\ read' = [read EXCEPT ![r] = @ + k]
            /\ rpc' = [rpc EXCEPT ![r] =
                          IF SetFilled(f, k) = f THEN "eof" ELSE "ready"]
            /\ total' = [total EXCEPT ![r] = 0]
            /\ delivered' = [delivered EXCEPT ![r] =
                          IF seeked[r] THEN <<>>
                          ELSE @ \o Handed(DiskRead(disk, pos[r], k), f, SetFilled(f, k))]
       ELSE /\ rpc' = [rpc EXCEPT ![r] = IF rem = 0 THEN "reload0" ELSE "reload"]
            /\ UNCHANGED <<read, total, delivered>>
    /\ UNCHANGED <<state, disk, wvars, seeked>>

\* A failing backing read handled as the writer handles its errors: Failed
\* is stored.
BackingReadErr_FailsFile(r) ==
    /\ Alive
    /\ rpc[r] \in IoStates
    /\ state' = Failed
    /\ wakers' = wakers \ {r}
    /\ rpc' = [rpc EXCEPT ![r] = "ioerr"]
    /\ woken' = woken \ {r}
    /\ total' = [total EXCEPT ![r] = 0]
    /\ UNCHANGED <<disk, wvars, read, pos, seeked, delivered>>

\* The backing read fails: remove_reader_waker, return the error.
BackingReadErr(r) ==
    /\ Alive
    /\ rpc[r] \in IoStates
    /\ wakers' = wakers \ {r}
    /\ rpc' = [rpc EXCEPT ![r] = "ioerr"]
    /\ woken' = woken \ {r}
    /\ total' = [total EXCEPT ![r] = 0]
    /\ UNCHANGED <<state, disk, wvars, read, pos, seeked, delivered>>

\* The backing read returns Pending: it has kept the task's waker and wakes
\* it when the read can go on.
BackingReadPending(r) ==
    /\ Alive
    /\ rpc[r] \in IoStates
    /\ woken' = woken \cup {r}
    /\ rpc' = [rpc EXCEPT ![r] = "reg2"]
    /\ total' = [total EXCEPT ![r] = 0]
    /\ UNCHANGED <<state, wakers, disk, wvars, read, pos, seeked, delivered>>

\* The buffer was not advanced: the second load of the state.
ReloadState(r) ==
    /\ Alive
    /\ rpc[r] \in {"reload", "reload0"}
    /\ rpc' = [rpc EXCEPT ![r] =
                  CASE state.tag = "Pending" -> "reg2"
                    [] state.tag = "Completed" ->
                         IF rpc[r] = "reload0" THEN "zero" ELSE "eof"
                    [] OTHER -> "closed"]
    /\ woken' = IF state.tag = "Pending" THEN woken ELSE woken \ {r}
    /\ total' = [total EXCEPT ![r] = 0]
    /\ UNCHANGED <<state, wakers, disk, wvars, read, pos, seeked, delivered>>

\* Re-register the waker and return Pending.
RegisterRetry(r) ==
    /\ Alive
    /\ rpc[r] = "reg2"
    /\ wakers' = wakers \cup {r}
    /\ rpc' = [rpc EXCEPT ![r] = "parked_io"]
    /\ UNCHANGED <<state, woken, disk, wvars, read, pos, total, seeked, delivered>>

Next ==
    \/ \E len \in 0..MaxLen, k \in 0..MaxLen : PollWrite(len, k)
    \/ PollWriteErr
    \/ PollFlushOk
    \/ PollFlushErr
    \/ SyncOk
    \/ SyncErr
    \/ CompleteNoSync
    \/ PollShutdownOk
    \/ PollShutdownErr
    \/ CompleteSyncOk
    \/ CompleteSyncErr
    \/ CompleteFinalize
    \/ DropWriter
    \/ WakeReaders
    \/ \E src, r \in Readers : Fork(src, r)
    \/ \E r \in Readers : NewReader(r)
    \/ \E r \in Readers : DropReader(r)
    \/ \E r \in Readers : PollRead(r)
    \/ \E r \in Readers : RegisterAtFrontier(r)
    \/ \E r \in Readers, f \in Cursors, rem \in 0..MaxBuf, k \in 0..MaxBuf :
            BackingReadOk(r, f, rem, k)
    \/ \E r \in Readers : BackingReadErr(r)
    \/ \E r \in Readers : BackingReadPending(r)
    \/ \E r \in Readers : ReloadState(r)
    \/ \E r \in Readers : RegisterRetry(r)

Spec == Init /\ [][Next]_vars

\* The readers also seek.
NextSeek ==
    \/ Next
    \/ \E r \in Seekers, p \in 0..MaxPrefill : Seek(r, p)

SpecSeek == Init /\ [][NextSeek]_vars

\* SharedFile::writer called again after the writer has completed and is
\* gone: open_rw gives a new view of the backing file, at offset 0, with the
\* same Sentinel.
NewWriter ==
    /\ wpc \in {"done", "done_err"}
    /\ wpc' = "idle"
    /\ wpos' = 0
    /\ UNCHANGED <<state, wakers, woken, disk, rvars>>

\* Writer views are taken one after the other.
NextWriters ==
    \/ Next
    \/ NewWriter

SpecWriters == Init /\ [][NextWriters]_vars

(***************************************************************************)
(* The waker-table mutex made visible.  register_reader_waker and          *)
(* remove_reader_waker take the mutex, change the table and release it at  *)
(* their end: one step, enabled while nobody holds the mutex.              *)
(* wake_readers takes it, drains the table and invokes every drained waker *)
(* inside the for_each; the guard `lock` lives to the end of the function, *)
(* so the mutex is released after the last waker has been invoked.         *)
(***************************************************************************)
WakePcs == {"wake", "c_wake1", "c_wake2", "drop_wake", "err_wake"}

\* The writer's position inside wake_readers, the guard alive.
LockedPc(pc) ==
    CASE pc = "wake" -> "wake_locked"
      [] pc = "c_wake1" -> "c_wake1_locked"
      [] pc = "c_wake2" -> "c_wake2_locked"
      [] pc = "drop_wake" -> "drop_wake_locked"
      [] OTHER -> "err_wake_locked"

\* The wake_readers call the writer is inside of.
UnlockedPc(pc) == CHOOSE p \in WakePcs : LockedPc(p) = pc

MutexHeld == wpc \in {LockedPc(p) : p \in WakePcs}

\* wake_readers up to the end of for_each: lock, drain, wake every waker.
WakeReadersLocked ==
    /\ wpc \in WakePcs
    /\ woken' = woken \cup {r \in wakers : rpc[r] \notin Returned}
    /\ wakers' = {}
    /\ wpc' = LockedPc(wpc)
    /\ UNCHANGED <<state, disk, wpos, rvars>>

\* The end of wake_readers: the guard is dropped.
WakeReadersUnlock ==
    /\ MutexHeld
    /\ wpc' = AfterWake(UnlockedPc(wpc))
    /\ UNCHANGED <<state, wakers, woken, disk, wpos, rvars>>

NextMutex ==
    \/ \E len \in 0..MaxLen, k \in 0..MaxLen : PollWrite(len, k)
    \/ PollWriteErr
    \/ PollFlushOk
    \/ PollFlushErr
    \/ SyncOk
    \/ SyncErr
    \/ CompleteNoSync
    \/ PollShutdownOk
    \/ PollShutdownErr
    \/ CompleteSyncOk
    \/ CompleteSyncErr
    \/ CompleteFinalize
    \/ DropWriter
    \/ WakeReadersLocked
    \/ WakeReadersUnlock
    \/ \E src, r \in Readers : Fork(src, r)
    \/ \E r \in Readers : NewReader(r)
    \/ \E r \in Readers : ~MutexHeld /\ DropReader(r)
    \/ \E r \in Readers : PollRead(r)
    \/ \E r \in Readers : ~MutexHeld /\ RegisterAtFrontier(r)
    \/ \E r \in Readers, f \in Cursors, rem \in 0..MaxBuf, k \in 0..MaxBuf :
            ~MutexHeld /\ BackingReadOk(r, f, rem, k)
    \/ \E r \in Readers : ~MutexHeld /\ BackingReadErr(r)
    \/ \E r \in Readers : BackingReadPending(r)
    \/ \E r \in Readers : ReloadState(r)
    \/ \E r \in Readers : ~MutexHeld /\ RegisterRetry(r)

SpecMutex == Init /\ [][NextMutex]_vars

(***************************************************************************)
(* Properties                                                              *)
(***************************************************************************)

\* The first n bytes the writer writes.
WrittenSeq(n) == [i \in 1..n |-> Data(i - 1)]

C1_ReadStep ==
    \A r \in Readers :
        read'[r] > read[r] =>
            /\ rpc[r] \in IoStates
            /\ total[r] > 0
            /\ read'[r] <= total[r]

C1_WithinFrontier ==
    \A r \in Readers :
        state.tag \in {"Pending", "Completed"} => read[r] <= state.committed

\* C1: a poll that advances a reader's bytes_read from r by n > 0 took its
\* current_total from a Pending or Completed state and r + n <= current_total;
\* and in every reachable Pending or Completed state no reader's bytes_read
\* exceeds the committed count (the size).
C1_ReaderClamping == [](C1_WithinFrontier) /\ [][C1_ReadStep]_vars

\* A reader has read up to a frontier behind which unflushed bytes lie.
C1_Witness ==
    \E r \in Readers :
        /\ state.tag = "Pending"
        /\ read[r] > 0
        /\ read[r] = state.committed
        /\ state.written > state.committed

\* C2: every byte a backing read of a poll delivers comes from a file offset
\* below the current_total of that poll, whatever the readers did before
\* (read, seek, fork) and although the file is longer than the frontier.
C2_NoStaleBytes ==
    [][\A r \in Readers :
          (rpc[r] \in IoStates /\ read'[r] > read[r]) => pos'[r] <= total[r]]_vars

\* C3: once the writer has completed and is gone (state Completed, no
\* wake_readers to come), no reader is parked without a wake on its way:
\* such a reader is never polled again and never receives the end of the
\* stream.
C3_NoReaderParkedForever ==
    \A r \in Readers :
        ~(/\ wpc = "done"
          /\ state.tag = "Completed"
          /\ rpc[r] \in Parked
          /\ r \notin woken)

\* C4: what the caller of a reader that never seeked has been handed is the
\* first bytes_read bytes the writer wrote; and when it is handed the end of
\* the stream in state Completed(size), it has been handed size bytes.
C4_InOrderDelivery ==
    \A r \in Readers :
        ~seeked[r] =>
            /\ read[r] <= wpos
            /\ delivered[r] = WrittenSeq(read[r])
            /\ (rpc[r] = "eof" /\ state.tag = "Completed")
                    => Len(delivered[r]) = state.committed

\* C5: a poll whose bytes_read is below its current_total, polled with a
\* buffer that has room, does not return Ready(Ok) with the caller's filled
\* cursor where it was (a zero-byte success, the end of the stream).
C5_NoSpuriousEof ==
    [][\A r \in Readers :
          (rpc[r] \in IoStates \cup {"reload"} /\ read[r] < total[r])
              => rpc'[r] # "eof"]_vars

\* C6: a poll at the frontier registers the waker, returns Pending and hands
\* over nothing; a wake_readers wakes a reader parked there; and the first
\* poll of a reader so released that finds committed bytes to read hands the
\* caller a positive byte count when its backing read returns bytes.
C6_FrontierBlockAndRelease ==
    [][\A r \in Readers :
          /\ (rpc[r] = "reg1" /\ rpc'[r] # "reg1") =>
                /\ rpc'[r] = "parked"
                /\ r \in wakers'
                /\ read'[r] = read[r]
                /\ delivered'[r] = delivered[r]
          /\ (rpc[r] = "parked" /\ r \in wakers /\ wpc \in WakePcs /\ wpc' # wpc)
                => r \in woken'
          /\ (rpc[r] = "io_rel" /\ read'[r] > read[r]) => rpc'[r] = "ready"]_vars

C7_Promote ==
    (wpc = "idle" /\ (PollFlushOk \/ SyncOk \/ CompleteSyncOk)) =>
        /\ state.tag = "Pending" => state' = Pending(state.written, state.written)
        /\ state.tag # "Pending" => state' = state
        /\ wpc' \in {"wake", "c_wake1"}

C7_Drain ==
    (wpc \in {"wake", "c_wake1"} /\ wpc' # wpc) =>
        /\ wakers' = {}
        /\ \A r \in wakers : rpc[r] \notin Returned => r \in woken'
        /\ state' = state

\* C7: a successful flush, sync_data or sync_all (also the one of complete)
\* in Pending(c, w) stores Pending(w, w), and in Completed or Failed leaves
\* the state as it is; the writer's next step drains the waker table and
\* wakes every reader registered in it that is parked or inside a poll.
C7_FrontierPromotion == [][C7_Promote /\ C7_Drain]_vars

\* After a promotion and its drain: a reader parked at the frontier is woken.
C7_Witness ==
    \E r \in Readers :
        /\ wpc = "idle"
        /\ state.tag = "Pending"
        /\ state.committed = state.written
        /\ state.committed > 0
        /\ rpc[r] = "parked"
        /\ r \in woken
        /\ wakers = {}

C8_Write ==
    (state.tag = "Pending"
            /\ \E len \in 0..MaxLen, k \in 0..MaxLen : PollWrite(len, k)) =>
        /\ state' = Pending(state.committed, state.written + (wpos' - wpos))
        /\ UNCHANGED <<wakers, woken, wpc, rvars>>

C8_WokenOnlyByWake ==
    (\E r \in Readers : r \in woken' \ woken /\ rpc[r] \notin IoStates) =>
        /\ wpc \in WakePcs
        /\ wpc' = AfterWake(wpc)

\* C8: a write or write_vectored in Pending(c, w) of which the backing file
\* took k bytes stores Pending(c, w + k) and changes nothing else: the waker
\* table, the woken readers and every reader are as they were; a reader is
\* woken by a wake_readers only (apart from its own backing read).
C8_WriteFrame == [][C8_Write /\ C8_WokenOnlyByWake]_vars

\* Bytes were written behind the frontier while a reader stayed parked there.
C8_Witness ==
    \E r \in Readers :
        /\ state.tag = "Pending"
        /\ state.written > state.committed
        /\ rpc[r] = "parked"
        /\ read[r] = state.committed
        /\ r \in wakers
        /\ r \notin woken

C9_CommittedLeWritten ==
    state.tag = "Pending" => state.committed <= state.written

C9_Step ==
    /\ (state.tag = "Pending" /\ state'.tag = "Pending") =>
            /\ state'.committed >= state.committed
            /\ state'.written >= state.written
    /\ (state.tag = "Pending" /\ state'.tag = "Completed") =>
            state'.committed >= state.committed

\* C9: committed <= written in every Pending state; from one state to the
\* next neither committed nor written decreases, and the size of Completed
\* is not below the committed count before it.
C9_Monotonicity == [](C9_CommittedLeWritten) /\ [][C9_Step]_vars

\* The writer wrote twice, flushed in between, and completed.
C9_Witness ==
    /\ wpc = "done"
    /\ state.tag = "Completed"
    /\ state.committed >= 2
    /\ \E r \in Readers : read[r] = 1

\* C10: once the state is Completed or Failed, no step stores Pending.
C10_Terminality == [][state.tag # "Pending" => state'.tag # "Pending"]_vars

\* Completed by shutdown, and a later write reached the backing file.
C10_Witness ==
    /\ state.tag = "Completed"
    /\ wpc = "idle"
    /\ wpos > state.committed
    /\ \E r \in Readers : rpc[r] = "eof"

\* C11: a step taken in Completed(size) leaves Completed(size) and a step
\* taken in Failed leaves Failed, whatever the writer does and whatever its
\* backing I/O returns.
C11_TerminalAbsorbing ==
    [][state.tag \in {"Completed", "Failed"} => state' = state]_vars

C12_Fail ==
    (wpc = "idle" /\ (PollWriteErr \/ PollFlushErr)) =>
        /\ state' = Failed
        /\ wpc' = "wake"
        /\ HandlePollWriteErr(state).res = "BackingError"
        /\ PollFlushReady(state, FALSE).res = "BackingError"

C12_Drain ==
    (wpc = "wake" /\ state.tag = "Failed" /\ wpc' # wpc) =>
        /\ wakers' = {}
        /\ \A r \in wakers : rpc[r] \in Parked => r \in woken'
        /\ state' = Failed

C12_NextRead ==
    \A r \in Readers :
        (state.tag = "Failed" /\ rpc[r] \in Parked /\ PollRead(r)) =>
            /\ rpc'[r] = "closed"
            /\ read'[r] = read[r]

\* C12: a write, write_vectored or flush whose backing operation fails
\* returns the backing error and stores Failed; the writer's next step
\* drains the waker table and wakes every reader parked in it; the next
\* poll of a parked reader in Failed returns the closed-file error.
C12_WriteFlushFailure == [][C12_Fail /\ C12_Drain /\ C12_NextRead]_vars

\* A reader had read a byte and parked; the writer failed and woke it.
C12_Witness ==
    \E r \in Readers :
        /\ state.tag = "Failed"
        /\ wpc = "idle"
        /\ wakers = {}
        /\ rpc[r] = "parked"
        /\ r \in woken
        /\ read[r] = 1
        /\ wpos = 2

\* C13: a sync_all or sync_data whose backing sync fails returns the backing
\* error, stores Failed and wakes the readers, as a failed flush does.
C13_SyncFailureFails ==
    (WriterIdle /\ state.tag = "Pending") =>
        SyncReturn(state, FALSE) =
            [st |-> Failed, res |-> "BackingError", wake |-> TRUE]

C14_Poll ==
    \A r \in Readers :
        (state.tag = "Failed" /\ PollRead(r)) =>
            /\ rpc'[r] = "closed"
            /\ read'[r] = read[r]
            /\ pos'[r] = pos[r]
            /\ delivered'[r] = delivered[r]
            /\ state' = state

C14_FileSize == state.tag = "Failed" => FileSize(state).kind = "Error"

\* C14: a poll that finds Failed at its first load of the state returns the
\* closed-file error, hands over nothing and leaves bytes_read (and the view)
\* as they were; file_size() is Error in Failed.
C14_ReadInFailed == [](C14_FileSize) /\ [][C14_Poll]_vars

\* A reader was handed one of two written bytes and then met Failed.
C14_Witness ==
    \E r \in Readers :
        /\ state.tag = "Failed"
        /\ rpc[r] = "closed"
        /\ read[r] = 1
        /\ delivered[r] = <<Data(0)>>
        /\ wpos = 2

C15_Results ==
    \A len \in 0..MaxLen, k \in 0..MaxLen :
        k <= len =>
            /\ state.tag = "Completed" =>
                    HandlePollWriteOk(state, len, k) =
                        [st |-> state, res |-> IF k # 0 THEN "FileClosed" ELSE "ok"]
            /\ state.tag = "Failed" =>
                    /\ HandlePollWriteOk(state, len, k) = [st |-> state, res |-> "Other"]
                    /\ HandlePollWriteErr(state).st = Failed
                    /\ HandlePollWriteErr(state).res = "BackingError"

C15_Step ==
    (state.tag # "Pending" /\ wpc = "idle"
            /\ \E len \in 0..MaxLen, k \in 0..MaxLen : PollWrite(len, k)) =>
        /\ state' = state
        /\ UNCHANGED <<wakers, woken, wpc, rvars>>

\* C15: in Completed(size) a write or write_vectored of which the backing
\* file took k > 0 bytes returns FileClosed, one of which it took none
\* returns Ok, and the state stays Completed(size); in Failed every write
\* returns an error and the state stays Failed.
C15_WriteAfterCompletion == [](C15_Results) /\ [][C15_Step]_vars

\* Completed(1) by shutdown; a later write of one byte was rejected after
\* the backing file had taken it.
C15_Witness ==
    /\ state = Completed(1)
    /\ wpc = "idle"
    /\ wpos = 2
    /\ disk[2] = Data(1)

\* C16: dropping the writer in Pending(committed, written), also with
\* committed < written, stores Completed(written) and goes on to wake the
\* readers; file_size() is then Exactly(written).
C16_DropFinalizes ==
    [][(wpc = "idle" /\ state.tag = "Pending" /\ DropWriter) =>
          /\ state' = Completed(state.written)
          /\ FileSize(state') = [kind |-> "Exactly", n |-> state.written]
          /\ wpc' = "drop_wake"]_vars

\* C17: complete() whose sync_all fails in Pending(committed, written), for
\* every committed <= written, returns SyncError, leaves a state that is no
\* longer Pending and goes on to wake the readers.
C17_CompleteSyncFailure ==
    [][(wpc = "idle" /\ state.tag = "Pending" /\ CompleteSyncErr) =>
          /\ CompleteReturn(state, FALSE) = "SyncError"
          /\ state'.tag # "Pending"
          /\ wpc' = "err_wake"]_vars

C18_Sync ==
    (wpc = "idle" /\ state.tag = "Pending" /\ CompleteSyncOk) =>
        /\ state' = Pending(state.written, state.written)
        /\ wpc' = "c_wake1"

C18_Finalize ==
    (wpc = "c_fin" /\ state.tag = "Pending" /\ wpc' # wpc) =>
        /\ FinalizeState(state).res = "ok"
        /\ state' = Completed(state.written)
        /\ FileSize(state') = [kind |-> "Exactly", n |-> wpos]
        /\ wpc' = "c_wake2"

C18_Drain ==
    (wpc \in {"c_wake1", "c_wake2"} /\ wpc' # wpc) =>
        /\ wakers' = {}
        /\ \A r \in wakers : rpc[r] \in Parked => r \in woken'
        /\ state' = state

C18_Committed ==
    /\ state.tag = "Pending" => CompleteReturn(state, TRUE) = "ok"
    /\ (wpc \in {"c_wake1", "c_fin"} /\ state.tag = "Pending") =>
            /\ state.committed = state.written
            /\ state.written = wpos

\* C18: complete() in Pending(c, w) with a succeeding sync_all stores
\* Pending(w, w), wakes the readers, stores Completed(w) with w all the bytes
\* written, wakes the readers again and returns Ok; file_size() is then
\* Exactly(w).
C18_CompleteSucceeds == [](C18_Committed) /\ [][C18_Sync /\ C18_Finalize /\ C18_Drain]_vars

\* complete() has stored Completed(2); a reader parked at offset 1 has been
\* woken by it.
C18_Witness ==
    \E r \in Readers :
        /\ wpc = "c_wake2"
        /\ state = Completed(2)
        /\ rpc[r] = "parked"
        /\ read[r] = 1
        /\ r \in woken

C19_Complete ==
    (wpc \in {"idle", "c_fin"} /\ state.tag # "Pending"
            /\ (CompleteNoSync \/ CompleteFinalize)) =>
        /\ FinalizeState(state).res =
                IF state.tag = "Failed" THEN "FileWritingFailed" ELSE "ok"
        /\ state' = state
        /\ wpc' = "c_wake2"

C19_Drain ==
    (wpc = "c_wake2" /\ wpc' # wpc) =>
        /\ state.tag # "Pending"
        /\ wakers' = {}
        /\ \A r \in wakers : rpc[r] \in Parked => r \in woken'
        /\ state' = state

\* C19: the completion step of complete_no_sync or complete in Failed
\* returns FileWritingFailed and in Completed(size) returns Ok; it leaves the
\* state as it is and goes on to drain the waker table and wake the parked
\* readers.
C19_CompletionAfterFailure == [][C19_Complete /\ C19_Drain]_vars

\* Completion in Failed, about to wake a reader still parked in the table.
C19_Witness ==
    \E r \in Readers :
        /\ wpc = "c_wake2"
        /\ state.tag = "Failed"
        /\ rpc[r] \in Parked
        /\ r \in wakers
        /\ r \notin woken

\* C20: file_size() is AtLeast(committed) in Pending(committed, written),
\* Exactly(size) in Completed(size) and Error in Failed; as long as no byte
\* was written and no reader created, the state is Pending(0, 0), the waker
\* table is empty and file_size() is AtLeast(0), although the backing file
\* holds bytes.
C20_FileSize ==
    /\ state.tag = "Pending" =>
            FileSize(state) = [kind |-> "AtLeast", n |-> state.committed]
    /\ state.tag = "Completed" =>
            FileSize(state) = [kind |-> "Exactly", n |-> state.committed]
    /\ state.tag = "Failed" => FileSize(state).kind = "Error"
    /\ (state.tag = "Pending" /\ wpos = 0 /\ \A r \in Readers : rpc[r] = "none") =>
            /\ state = Pending(0, 0)
            /\ wakers = {}
            /\ FileSize(state) = [kind |-> "AtLeast", n |-> 0]
            /\ Len(disk) > 0

\* A reader exists while one byte is committed and a second one only written.
C20_Witness ==
    \E r \in Readers :
        /\ rpc[r] \in BetweenPolls
        /\ state = Pending(1, 2)
        /\ FileSize(state) = [kind |-> "AtLeast", n |-> 1]

C21_Fork ==
    \A src, r \in Readers :
        Fork(src, r) =>
            /\ r # src
            /\ rpc[r] = "none"
            /\ r \notin wakers
            /\ read'[r] = 0
            /\ pos'[r] = 0
            /\ delivered'[r] = <<>>
            /\ \A q \in Readers \ {r} :
                    /\ read'[q] = read[q]
                    /\ pos'[q] = pos[q]
                    /\ rpc'[q] = rpc[q]
            /\ UNCHANGED <<state, wakers, disk>>

C21_SameBytes ==
    \A r, q \in Readers :
        (/\ state.tag = "Completed"
         /\ rpc[r] = "eof" /\ ~seeked[r]
         /\ rpc[q] = "eof" /\ ~seeked[q]) => delivered[r] = delivered[q]

\* C21: fork() creates a reader with an identity no other reader has,
\* bytes_read 0 and a view at offset 0, and changes neither the state nor
\* any other reader; two readers that read from offset 0 and were handed the
\* end of the stream in Completed(size) were handed the same bytes.
C21_ForkEquivalence == [](C21_SameBytes) /\ [][C21_Fork]_vars

C22_Calls ==
    /\ (wpc = "idle" /\ wakers # {}
            /\ (PollFlushOk \/ SyncOk \/ CompleteSyncOk \/ CompleteNoSync \/ DropWriter))
          => wpc' \in WakePcs
    /\ (wpc = "c_fin" /\ wpc' # wpc) => wpc' \in WakePcs

C22_Drain ==
    (wpc \in WakePcs /\ wpc' # wpc) =>
        /\ wakers' = {}
        /\ \A r \in wakers : rpc[r] \notin Returned => r \in woken'
        /\ woken' \subseteq woken \cup wakers

C22_Register ==
    \A r \in Readers : (r \in wakers' /\ r \notin wakers) => rpc[r] \in {"reg1", "reg2"}

\* C22: every successful flush, sync_data, sync_all and every completion
\* (complete, complete_no_sync, drop) goes on to a wake_readers; a
\* wake_readers empties the waker table and wakes every reader that had a
\* waker in it, and no other; a reader's entry comes back only by that
\* reader registering again.
C22_WakeOncePerDrain == [][C22_Calls /\ C22_Drain /\ C22_Register]_vars

\* The state has advanced past the snapshot Pending(c, _) with c = readSoFar
\* on which a reader parked.
C23_Advanced(readSoFar) ==
    \/ state.tag = "Pending" /\ state.committed > readSoFar
    \/ state.tag \in {"Completed", "Failed"}

\* C23: no reader is parked at the frontier, its waker registered and not
\* woken, while the state has advanced past the snapshot it parked on and
\* the wake_readers of that advance is over (the writer is back between
\* operations with the state still Pending, or it is gone).
C23_NoLostWake ==
    \A r \in Readers :
        ~(/\ rpc[r] = "parked"
          /\ r \in wakers
          /\ r \notin woken
          /\ C23_Advanced(read[r])
          /\ \/ wpc = "idle" /\ state.tag = "Pending"
             \/ wpc = "done")

\* A poll returns Pending only by its register step, which puts the reader's
\* id into the waker table.
C24_RegisteredWhenPending ==
    \A r \in Readers :
        /\ (rpc'[r] \in Parked /\ rpc[r] \notin Parked) =>
                /\ rpc[r] \in {"reg1", "reg2"}
                /\ r \in wakers'
        /\ (rpc[r] \in {"reg1", "reg2"} /\ rpc'[r] # rpc[r]) =>
                /\ rpc'[r] \in Parked
                /\ r \in wakers'

\* The register step follows the poll's last load of the state: the poll
\* comes to it from a load that found Pending, or from a backing read that
\* returned Pending (no load follows that one).
C24_AfterLastLoad ==
    \A r \in Readers :
        /\ (rpc'[r] = "reg1" /\ rpc[r] # "reg1") =>
                /\ rpc[r] \in BetweenPolls
                /\ state.tag = "Pending"
                /\ read[r] = state.committed
        /\ (rpc'[r] = "reg2" /\ rpc[r] # "reg2") =>
                \/ rpc[r] \in {"reload", "reload0"} /\ state.tag = "Pending"
                \/ rpc[r] \in IoStates

\* A load that finds Completed or Failed does not lead to a register step
\* (a reader between polls may also be dropped).
C24_LoadNotPending ==
    state.tag \in {"Completed", "Failed"} =>
        \A r \in Readers :
            (rpc[r] \in BetweenPolls \cup {"reload", "reload0"} /\ rpc'[r] # rpc[r])
                => rpc'[r] \in Returned \cup IoStates \cup {"dropped"}

\* Once a poll has loaded Completed and gone on to its backing read, that
\* read cannot return Pending (after which the poll registers and returns
\* Pending, see C24_RegisteredWhenPending).
C24_CompletedNeverPending ==
    \A r \in Readers :
        (state.tag = "Completed" /\ rpc[r] \in BetweenPolls /\ rpc'[r] \in IoStates)
            => ~(ENABLED BackingReadPending(r))'

\* C24 as stated: every poll that returns Pending has registered the
\* reader's waker under its id after its last load of the state, and a poll
\* that observes Completed or Failed never returns Pending.
C24_PendingRegistered ==
    [][C24_RegisteredWhenPending /\ C24_AfterLastLoad /\ C24_LoadNotPending
            /\ C24_CompletedNeverPending]_vars

\* C24 amended: every poll that returns Pending has registered the reader's
\* waker under its id after its last load of the state; a poll whose load
\* finds Failed, or finds Completed with nothing left to read, does not
\* return Pending; a poll that goes to the backing read returns Pending only
\* when that read returns Pending or reads nothing while the state is Pending.
C24_PendingRegisteredAmended ==
    [][C24_RegisteredWhenPending /\ C24_AfterLastLoad /\ C24_LoadNotPending]_vars

\* A poll that loaded Completed(2) with one byte read has returned Pending,
\* its waker in the table, the writer gone.
C24_Witness ==
    \E r \in Readers :
        /\ rpc[r] = "parked_io"
        /\ r \in wakers
        /\ state = Completed(2)
        /\ read[r] = 1
        /\ wpc = "done"

C25_WakeAfterRelease ==
    (wpc \in WakePcs /\ wpc' # wpc /\ wakers # {}) => ~MutexHeld'

C25_NoHoldOutsideWake ==
    MutexHeld =>
        /\ wpc' # wpc => wpc' = AfterWake(UnlockedPc(wpc))
        /\ UNCHANGED <<state, disk, wpos, wakers>>

\* C25: wake_readers has released the waker-table mutex when it invokes the
\* wakers it drained; while the mutex is held no backing I/O is done, the
\* state is not stored and the table is not touched by anyone else.
C25_MutexDiscipline == [][C25_WakeAfterRelease /\ C25_NoHoldOutsideWake]_vars

C26_Ok ==
    (/\ wpc = "idle"
     /\ state.tag = "Pending"
     /\ state.committed = state.written
     /\ wakers # {}
     /\ PollShutdownOk) =>
        /\ state' = Completed(state.written)
        /\ PollShutdownReady(state, TRUE).wake
        /\ wpc' \in WakePcs

C26_Err ==
    (wpc = "idle" /\ wakers # {} /\ PollShutdownErr) =>
        /\ state' = Failed
        /\ PollShutdownReady(state, FALSE).wake
        /\ wpc' \in WakePcs

\* C26: a shutdown whose backing shutdown succeeds in Pending(c, w) with
\* c = w stores Completed(w), one whose backing shutdown fails stores Failed,
\* and in both cases the shutdown goes on to wake_readers, which drains the
\* waker table and wakes the parked readers.
C26_ShutdownPublishes == [][C26_Ok /\ C26_Err]_vars

\* C27: every step that takes the state from Pending(committed, written) to
\* Completed(size), by complete, complete_no_sync, shutdown or drop, starts
\* with committed = written and stores size = written.
C27_NoUncommittedExposed ==
    [][(state.tag = "Pending" /\ state'.tag = "Completed") =>
          /\ state.committed = state.written
          /\ state' = Completed(state.written)]_vars

C28_Delivers ==
    \A r \in Readers :
        (rpc[r] \in IoStates /\ read'[r] > read[r]) =>
            /\ rpc'[r] = "ready"
            /\ pos'[r] = pos[r] + (read'[r] - read[r])
            /\ ~seeked[r] =>
                    delivered'[r] =
                        delivered[r] \o DiskRead(disk, pos[r], read'[r] - read[r])

C28_DeliversNothing ==
    \A r \in Readers :
        (rpc[r] \in IoStates /\ read'[r] = read[r]) =>
            /\ delivered'[r] = delivered[r]
            /\ rpc'[r] # "ready"

\* C28: a poll whose backing read produced n > 0 bytes into a buffer with
\* filled cursor f leaves the cursor at f + n, hands the caller exactly those
\* n bytes and advances bytes_read (and the view) by n; a poll that
\* delivers no byte hands over nothing and leaves bytes_read as it was.
C28_BufferAccounting == [][C28_Delivers /\ C28_DeliversNothing]_vars

\* C29: a poll whose backing read fails returns that error; the state, the
\* backing file, every reader's bytes_read and the other readers' views,
\* positions and waker entries are as they were; of the waker table only the
\* failing reader's own entry may go.
C29_ReadErrorLocal ==
    [][\A r \in Readers :
          (rpc[r] \in IoStates /\ rpc'[r] = "ioerr") =>
              /\ state' = state
              /\ disk' = disk
              /\ read' = read
              /\ delivered' = delivered
              /\ wakers \ {r} \subseteq wakers'
              /\ wakers' \subseteq wakers
              /\ \A q \in Readers \ {r} :
                    /\ pos'[q] = pos[q]
                    /\ rpc'[q] = rpc[q]
                    /\ (q \in woken') = (q \in woken)]_vars

\* One reader's backing read of the committed byte has failed, while the
\* other has read that byte and is parked at the frontier, its waker in the
\* table.
C29_Witness ==
    \E r, q \in Readers :
        /\ rpc[r] = "ioerr"
        /\ read[r] = 0
        /\ state = Pending(1, 2)
        /\ rpc[q] = "parked"
        /\ read[q] = 1
        /\ q \in wakers
        /\ q \notin woken

C30_Drop ==
    \A r \in Readers :
        (rpc'[r] = "dropped" /\ rpc[r] # "dropped") =>
            /\ wakers' = wakers \ {r}
            /\ state' = state
            /\ \A q \in Readers \ {r} :
                    /\ rpc'[q] = rpc[q]
                    /\ read'[q] = read[q]
                    /\ (q \in woken') = (q \in woken)

C30_NoDroppedEntry ==
    \A r \in Readers : rpc[r] = "dropped" => r \notin wakers

C30_NoDroppedWoken ==
    \A r \in Readers : (r \in woken' /\ r \notin woken) => rpc[r] # "dropped"

\* C30: the drop of a reader takes its entry out of the waker table and
\* leaves the state and the other readers' entries as they are; the table
\* never holds the id of a dropped reader, and wake_readers never wakes one.
C30_DropRemovesWaker ==
    [](C30_NoDroppedEntry) /\ [][C30_Drop /\ C30_NoDroppedWoken]_vars

\* A reader that was parked with its waker registered has been dropped; the
\* other reader's entry is still in the table and a wake_readers is coming.
C30_Witness ==
    \E r, q \in Readers :
        /\ rpc[r] = "dropped"
        /\ rpc[q] = "parked"
        /\ wakers = {q}
        /\ wpc \in WakePcs

\* A write the writer is refused: the backing file took bytes (the view
\* moved on) while the state is Completed, or the state is Failed.
C31_Rejected ==
    /\ wpc = "idle"
    /\ state.tag \in {"Completed", "Failed"}
    /\ wpos' > wpos

\* C31: a write or write_vectored that returns an error because the state is
\* Completed (the backing file having taken bytes) or Failed leaves the
\* contents of the backing file as they were, also when a second writer view
\* issues it after the first writer completed.
C31_RejectedWriteNoEffect == [][C31_Rejected => disk' = disk]_vars

\* The part of C31 about the committed bytes: a refused write in
\* Completed(size) leaves the first size bytes of the backing file as they
\* were.
C31_CommittedBytesKept ==
    [][(C31_Rejected /\ state.tag = "Completed") =>
          SubSeq(disk', 1, state.committed) = SubSeq(disk, 1, state.committed)]_vars

====
